---- MODULE Spec2Model ----
(***************************************************************************)
(* AsyncDB (src/src/asyncdb.rs): a client handle that forwards every       *)
(* operation as a Message over a bounded channel to one worker             *)
(* (run_server), which owns the store and the snapshot registry and        *)
(* answers on the Message's single-use reply channel.                      *)
(***************************************************************************)
EXTENDS Integers, Sequences, FiniteSets, TLC

(* ------------------------------------------------------------------ *)
(* Bounds of the model                                                 *)
(* ------------------------------------------------------------------ *)

\* Number of tasks that call methods of the one AsyncDB handle.
NumCallers == 2

\* Total number of method calls made in a run (one more in the runs that
\* leave Close out).
MaxOps == 3

\* Capacity of the request channel.  The source sets 32 (asyncdb.rs:46); the
\* model scales it down so that a full channel is reached within MaxOps calls.
CHANNEL_BUFFER_SIZE == 2

\* Number of calls whose future the caller drops before it completes.
MaxAbandons == 1

\* Number of keys and of values (byte strings, named by numbers).
NumKeys == 2
NumVals == 2

Callers == 1..NumCallers
Keys == 1..NumKeys
Vals == 1..NumVals
\* Option::None of a value
None == 0

\* Status codes the store can fail with (crate::StatusCode).
StoreErrs == {"IOError"}
\* What one call of the store does: succeed, or fail with one of its codes.
StoreOutcomes == {"Ok"} \cup StoreErrs

\* The two runtimes the channel types are taken from (asyncdb.rs:6-44).
Builds == {"async_tokio", "async_std"}

(* ------------------------------------------------------------------ *)
(* Protocol types                                                      *)
(* ------------------------------------------------------------------ *)

\* WriteBatch values a caller passes to write(): a sequence of put / delete
\* entries applied in order.
BatchEntryPut(k, v) == [kind |-> "put", key |-> k, val |-> v]
BatchEntryDelete(k) == [kind |-> "delete", key |-> k, val |-> None]

\* enum Request
ReqClose == [op |-> "Close"]
ReqPut(k, v) == [op |-> "Put", key |-> k, val |-> v]
ReqDelete(k) == [op |-> "Delete", key |-> k]
ReqWrite(b, s) == [op |-> "Write", batch |-> b, sync |-> s]
ReqFlush == [op |-> "Flush"]
ReqGetAt(h, k) == [op |-> "GetAt", snapshot |-> h, key |-> k]
ReqGet(k) == [op |-> "Get", key |-> k]
ReqGetSnapshot == [op |-> "GetSnapshot"]
ReqDropSnapshot(h) == [op |-> "DropSnapshot", snapshot |-> h]
ReqCompactRange(f, t) == [op |-> "CompactRange", from |-> f, to |-> t]

\* struct Status { code, err }
Status(c, e) == [code |-> c, err |-> e]

\* enum Response
RespOK == [type |-> "OK"]
RespError(s) == [type |-> "Error", status |-> s]
RespValue(v) == [type |-> "Value", val |-> v]
RespSnapshot(h) == [type |-> "Snapshot", ref |-> h]

\* Result<T> as a caller sees it.
Ok(v) == [ok |-> TRUE, val |-> v]
Err(s) == [ok |-> FALSE, status |-> s]
Unit == "()"

\* States of a caller's end of a single-use reply channel that hold no value.
RxEmpty == [type |-> "Empty"]
RxClosed == [type |-> "Closed"]

VARIABLES
    build,             \* the runtime feature of this build; it shows only
                       \* when run_server drops recv, and is fixed there
    db,                \* the store's live contents: key -> value or None
    snapshots,         \* run_server's registry: handle -> snapshot
    snapshot_counter,  \* run_server's next handle
    queue,             \* Messages buffered in the bounded channel, oldest first
    recv_closed,       \* the channel no longer accepts sends
    wpc,               \* where the worker is in run_server
    handle,            \* the AsyncDB handle (and its Sender) still exists
    pc,                \* per caller: where it is in process_request
    cur,               \* per caller: the call it made last
    rx,                \* per caller: its end of the reply channel
    result,            \* per caller: what its last call returned
    ops,               \* number of calls made so far
    enq,               \* number of Messages that entered the channel so far
    hist,              \* the Messages the worker dequeued, in that order, each
                       \* with the store's outcome, the Responses sent and
                       \* the worker's state before and after its arm
    close_oks,         \* number of close() calls that have returned Ok
    abandons           \* number of calls abandoned so far

vars ==
    <<build, db, snapshots, snapshot_counter, queue, recv_closed, wpc, handle,
      pc, cur, rx, result, ops, enq, hist, close_oks, abandons>>

workerVars == <<db, snapshots, snapshot_counter, wpc, hist>>
callerVars == <<pc, cur, rx, result, ops, close_oks, abandons>>

(* ------------------------------------------------------------------ *)
(* The store (crate::DB), as its callers in run_server see it           *)
(* ------------------------------------------------------------------ *)

EmptyStore == [k \in Keys |-> None]

\* The Result<()> of a store call whose outcome is o.
StoreResult(o) == IF o = "Ok" THEN Ok(Unit) ELSE Err(Status(o, "store error"))

\* db.put(&key, &val): on success the key holds val; a failed call leaves the
\* contents as they were.
db_put(d, k, v, o) ==
    [res |-> StoreResult(o), db |-> IF o = "Ok" THEN [d EXCEPT ![k] = v] ELSE d]

\* db.delete(&key)
db_delete(d, k, o) ==
    [res |-> StoreResult(o), db |-> IF o = "Ok" THEN [d EXCEPT ![k] = None] ELSE d]

\* The contents after the entries of a WriteBatch are applied in order.
RECURSIVE ApplyBatch(_, _)
ApplyBatch(d, b) ==
    IF b = <<>> THEN d
    ELSE ApplyBatch([d EXCEPT ![Head(b).key] = Head(b).val], Tail(b))

\* db.write(batch, sync)
db_write(d, b, sync, o) ==
    [res |-> StoreResult(o), db |-> IF o = "Ok" THEN ApplyBatch(d, b) ELSE d]

\* db.flush(): moves data within the store; the key-value contents stay.
db_flush(d, o) == [res |-> StoreResult(o), db |-> d]

\* db.compact_range(&from, &to): likewise.
db_compact_range(d, from, to, o) == [res |-> StoreResult(o), db |-> d]

\* db.get(&key): Option<Vec<u8>>, None for an absent key.
db_get(d, k) == d[k]

\* db.get_snapshot(): an object that keeps the contents of this moment.
db_get_snapshot(d) == d

\* db.get_at(&snapshot, &key): Result<Option<Vec<u8>>>
db_get_at(snap, k, o) ==
    IF o = "Ok" THEN Ok(snap[k]) ELSE Err(Status(o, "store error"))

(* ------------------------------------------------------------------ *)
(* The worker: run_server's match arms                                 *)
(* ------------------------------------------------------------------ *)

\* What one match arm leaves behind: the store, the registry, the counter,
\* the Responses it sent on message.resp_channel (in order), and whether it
\* left the loop.
Effect(d, s, c, sent, leave) ==
    [db |-> d, snapshots |-> s, snapshot_counter |-> c, sent |-> sent,
     leave |-> leave]

\* A send_response that reports every failure under one generic status.
send_response_generic_error(res) ==
    IF ~res.ok THEN <<RespError(Status("AsyncError", "store call failed"))>>
    ELSE <<RespOK>>

\* fn send_response(ch, result)
send_response(res) ==
    IF ~res.ok THEN <<RespError(res.status)>> ELSE <<RespOK>>

\* snapshots.insert(key, value) / snapshots.remove(&key) of the HashMap
HashMapInsert(s, h, v) == [x \in (DOMAIN s) \cup {h} |-> IF x = h THEN v ELSE s[x]]
HashMapRemove(s, h) == [x \in (DOMAIN s) \ {h} |-> s[x]]

\* Request::Close
arm_Close(req, d, s, c, o) == Effect(d, s, c, <<RespOK>>, TRUE)

\* Request::Put { key, val }
arm_Put(req, d, s, c, o) ==
    LET ok == db_put(d, req.key, req.val, o)
    IN Effect(ok.db, s, c, send_response(ok.res), FALSE)

\* Request::Delete { key }
arm_Delete(req, d, s, c, o) ==
    LET ok == db_delete(d, req.key, o)
    IN Effect(ok.db, s, c, send_response(ok.res), FALSE)

\* Request::Write { batch, sync }
arm_Write(req, d, s, c, o) ==
    LET ok == db_write(d, req.batch, req.sync, o)
    IN Effect(ok.db, s, c, send_response(ok.res), FALSE)

\* Request::Flush
arm_Flush(req, d, s, c, o) ==
    LET ok == db_flush(d, o)
    IN Effect(ok.db, s, c, send_response(ok.res), FALSE)

\* A GetAt arm that reads the live store once it has found the handle.
arm_GetAt_reads_live(req, d, s, c, o) ==
    LET snapshot_id == req.snapshot
    IN IF snapshot_id \in DOMAIN s
       THEN LET ok == db_get_at(db_get_snapshot(d), req.key, o)
            IN IF ~ok.ok
               THEN Effect(d, s, c, <<RespError(ok.status)>>, FALSE)
               ELSE Effect(d, s, c, <<RespValue(ok.val)>>, FALSE)
       ELSE Effect(d, s, c,
                   <<RespError(Status("AsyncError",
                                      "Unknown snapshot reference: this is a bug"))>>,
                   FALSE)

\* A GetAt arm that gives up the loop when the handle is unknown.
arm_GetAt_unknown_ends_worker(req, d, s, c, o) ==
    LET snapshot_id == req.snapshot
    IN IF snapshot_id \in DOMAIN s
       THEN LET ok == db_get_at(s[snapshot_id], req.key, o)
            IN IF ~ok.ok
               THEN Effect(d, s, c, <<RespError(ok.status)>>, FALSE)
               ELSE Effect(d, s, c, <<RespValue(ok.val)>>, FALSE)
       ELSE Effect(d, s, c,
                   <<RespError(Status("AsyncError",
                                      "Unknown snapshot reference: this is a bug"))>>,
                   TRUE)

\* Request::GetAt { snapshot, key }
UnknownSnapshot == Status("AsyncError", "Unknown snapshot reference: this is a bug")
arm_GetAt(req, d, s, c, o) ==
    LET snapshot_id == req.snapshot
    IN IF snapshot_id \in DOMAIN s
       THEN LET ok == db_get_at(s[snapshot_id], req.key, o)
            IN IF ~ok.ok
               THEN Effect(d, s, c, <<RespError(ok.status)>>, FALSE)
               ELSE Effect(d, s, c, <<RespValue(ok.val)>>, FALSE)
       ELSE Effect(d, s, c, <<RespError(UnknownSnapshot)>>, FALSE)

\* A Get arm that reports an absent key as an error.
arm_Get_absent_is_error(req, d, s, c, o) ==
    LET r == db_get(d, req.key)
    IN IF r = None
       THEN Effect(d, s, c, <<RespError(Status("NotFound", "not found"))>>, FALSE)
       ELSE Effect(d, s, c, <<RespValue(r)>>, FALSE)

\* Request::Get { key }
arm_Get(req, d, s, c, o) ==
    LET r == db_get(d, req.key)
    IN Effect(d, s, c, <<RespValue(r)>>, FALSE)

\* A GetSnapshot arm that forgets `snapshot_counter += 1`.
arm_GetSnapshot_no_increment(req, d, s, c, o) ==
    Effect(d, HashMapInsert(s, c, db_get_snapshot(d)), c, <<RespSnapshot(c)>>, FALSE)

\* Request::GetSnapshot.  snapshot_counter is a usize; it cannot reach its
\* wrap-around within MaxOps requests.
arm_GetSnapshot(req, d, s, c, o) ==
    LET sref == c
    IN Effect(d, HashMapInsert(s, c, db_get_snapshot(d)), c + 1,
              <<RespSnapshot(sref)>>, FALSE)

\* A DropSnapshot arm that empties the registry.
arm_DropSnapshot_clears_registry(req, d, s, c, o) ==
    Effect(d, <<>>, c, send_response(Ok(Unit)), FALSE)

\* A DropSnapshot arm that leaves the entry in the registry.
arm_DropSnapshot_keeps_entry(req, d, s, c, o) ==
    Effect(d, s, c, send_response(Ok(Unit)), FALSE)

\* A DropSnapshot arm that treats an absent handle as an error.
arm_DropSnapshot_absent_is_error(req, d, s, c, o) ==
    IF req.snapshot \in DOMAIN s
    THEN Effect(d, HashMapRemove(s, req.snapshot), c, send_response(Ok(Unit)), FALSE)
    ELSE Effect(d, s, c, <<RespError(UnknownSnapshot)>>, FALSE)

\* Request::DropSnapshot { snapshot }
arm_DropSnapshot(req, d, s, c, o) ==
    Effect(d, HashMapRemove(s, req.snapshot), c, send_response(Ok(Unit)), FALSE)

\* A CompactRange arm that releases the snapshots along with the compaction.
arm_CompactRange_clears_snapshots(req, d, s, c, o) ==
    LET ok == db_compact_range(d, req.from, req.to, o)
    IN Effect(ok.db, <<>>, c, send_response(ok.res), FALSE)

\* Request::CompactRange { from, to }
arm_CompactRange(req, d, s, c, o) ==
    LET ok == db_compact_range(d, req.from, req.to, o)
    IN Effect(ok.db, s, c, send_response(ok.res), FALSE)

\* match message.req { ... }
dispatch(req, d, s, c, o) ==
    CASE req.op = "Close" -> arm_Close(req, d, s, c, o)
      [] req.op = "Put" -> arm_Put(req, d, s, c, o)
      [] req.op = "Delete" -> arm_Delete(req, d, s, c, o)
      [] req.op = "Write" -> arm_Write(req, d, s, c, o)
      [] req.op = "Flush" -> arm_Flush(req, d, s, c, o)
      [] req.op = "GetAt" -> arm_GetAt(req, d, s, c, o)
      [] req.op = "Get" -> arm_Get(req, d, s, c, o)
      [] req.op = "GetSnapshot" -> arm_GetSnapshot(req, d, s, c, o)
      [] req.op = "DropSnapshot" -> arm_DropSnapshot(req, d, s, c, o)
      [] req.op = "CompactRange" -> arm_CompactRange(req, d, s, c, o)

\* Whether the store is called by the arm for this request, so that the
\* call's outcome is a choice.
CallsStore(req, s) ==
    \/ req.op \in {"Put", "Delete", "Write", "Flush", "CompactRange"}
    \/ req.op = "GetAt" /\ req.snapshot \in DOMAIN s

\* The outcomes the store can give the call that the arm for req makes: a
\* call can fail with a status, except that compacting the empty range of an
\* empty store has nothing to do and succeeds.
db_outcomes(req, d, s) ==
    IF ~CallsStore(req, s) THEN {"Ok"}
    ELSE IF req.op = "CompactRange" /\ req.from = <<>> /\ req.to = <<>>
            /\ d = EmptyStore
    THEN {"Ok"}
    ELSE StoreOutcomes

(* ------------------------------------------------------------------ *)
(* The client handle: what each method makes of the Response           *)
(* ------------------------------------------------------------------ *)

WrongResponse == Status("AsyncError", "Wrong response type in AsyncDB.")
ChannelClosed == Status("AsyncError", "channel closed")
SendFailed == Status("AsyncError", "send failed: channel closed")

\* The match of close, put, delete, write, flush and compact_range.
match_unit(r) ==
    CASE r.type = "OK" -> Ok(Unit)
      [] r.type = "Error" -> Err(r.status)
      [] OTHER -> Err(WrongResponse)

\* The match of get and get_at.
match_value(r) ==
    CASE r.type = "Value" -> Ok(r.val)
      [] r.type = "Error" -> Err(r.status)
      [] OTHER -> Err(WrongResponse)

close(r) == match_unit(r)
put(r) == match_unit(r)
delete(r) == match_unit(r)
write(r) == match_unit(r)
flush(r) == match_unit(r)
compact_range(r) == match_unit(r)
get(r) == match_value(r)

\* A get_at whose match has no arm for Response::Error.
get_at_without_error_arm(r) ==
    CASE r.type = "Value" -> Ok(r.val)
      [] OTHER -> Err(WrongResponse)

get_at(r) == match_value(r)

get_snapshot(r) ==
    CASE r.type = "Snapshot" -> Ok(r.ref)
      [] OTHER -> Err(WrongResponse)

drop_snapshot(r) ==
    CASE r.type = "OK" -> Ok(Unit)
      [] OTHER -> Err(WrongResponse)

\* The method that issued req, applied to the Response r it awaited.
method(req, r) ==
    CASE req.op = "Close" -> close(r)
      [] req.op = "Put" -> put(r)
      [] req.op = "Delete" -> delete(r)
      [] req.op = "Write" -> write(r)
      [] req.op = "Flush" -> flush(r)
      [] req.op = "GetAt" -> get_at(r)
      [] req.op = "Get" -> get(r)
      [] req.op = "GetSnapshot" -> get_snapshot(r)
      [] req.op = "DropSnapshot" -> drop_snapshot(r)
      [] req.op = "CompactRange" -> compact_range(r)

\* process_request after the send succeeded: `rx.await`, then the method's match.
process_request(req, r) ==
    IF r.type = "Closed" THEN Err(ChannelClosed) ELSE method(req, r)

(* ------------------------------------------------------------------ *)
(* The channels                                                        *)
(* ------------------------------------------------------------------ *)

\* struct Message, with the sequence number of its entry into the channel,
\* the caller that awaits its reply, whether that caller still holds the
\* receiving end, and whether the call was made after a close() returned Ok.
Message(id, req, c, late) ==
    [id |-> id, req |-> req, caller |-> c, rx_alive |-> TRUE, late |-> late]

\* A receive that takes the newest Message instead of the oldest.
blocking_recv_newest(q) == [message |-> q[Len(q)], rest |-> SubSeq(q, 1, Len(q) - 1)]

\* Self::blocking_recv(&mut recv) on a non-empty channel: the oldest Message.
blocking_recv(q) == [message |-> Head(q), rest |-> Tail(q)]

\* A delivery that reaches the reply channel of the next caller.
deliver_to_other(r, message, sent) ==
    IF message.rx_alive
    THEN [r EXCEPT ![(message.caller % NumCallers) + 1] =
              IF sent = <<>> THEN RxClosed ELSE sent[1]]
    ELSE r

\* A delivery that does not notice that the caller dropped its end.
deliver_to_abandoned(r, message, sent) ==
    [r EXCEPT ![message.caller] = IF sent = <<>> THEN RxClosed ELSE sent[1]]

\* resp_channel.send(..).ok() for every Response of `sent`, then the drop of
\* resp_channel: the caller's end holds the first value sent, or is closed if
\* none was; nothing happens if the caller dropped its end.
deliver(r, message, sent) ==
    IF message.rx_alive
    THEN [r EXCEPT ![message.caller] = IF sent = <<>> THEN RxClosed ELSE sent[1]]
    ELSE r

\* Dropping the Messages of q unprocessed closes their reply channels.
RECURSIVE drop_messages(_, _)
drop_messages(r, q) ==
    IF q = <<>> THEN r
    ELSE drop_messages(deliver(r, Head(q), <<>>), Tail(q))

\* The Messages left in the channel once its Receiver is dropped: tokio's
\* Receiver drains and drops them; async_channel's only closes the channel,
\* and they stay until the last Sender is gone too.
receiver_dropped(b, q) == IF b = "async_tokio" THEN <<>> ELSE q

\* Caller c's last call has returned.
Returned(c) == pc[c] = "returned"

\* The record of a call: its request, the number of its Message (0 while it
\* has none in the channel), whether it was made after a close() returned Ok,
\* and, for a call that found the channel full, how many Messages the worker
\* had dequeued when it was suspended (kept while it is suspended) and
\* whether the worker had dequeued more by the time its Message entered.
CallRecord(req, id, late, blocked, at_block, drained) ==
    [req |-> req, id |-> id, late |-> late, blocked |-> blocked,
     at_block |-> at_block, drained |-> drained]

NoCall == CallRecord([op |-> "None"], 0, FALSE, FALSE, 0, FALSE)
NoResult == [ok |-> FALSE, status |-> Status("None", "")]

(* ------------------------------------------------------------------ *)
(* Initial state: AsyncDB::new on a new database                       *)
(* ------------------------------------------------------------------ *)

Init ==
    /\ build = "unset"
    /\ db = EmptyStore
    /\ snapshots = <<>>
    /\ snapshot_counter = 0
    /\ queue = <<>>
    /\ recv_closed = FALSE
    /\ wpc = "recv"
    /\ handle = TRUE
    /\ pc = [c \in Callers |-> "idle"]
    /\ cur = [c \in Callers |-> NoCall]
    /\ rx = [c \in Callers |-> RxEmpty]
    /\ result = [c \in Callers |-> NoResult]
    /\ ops = 0
    /\ enq = 0
    /\ hist = <<>>
    /\ close_oks = 0
    /\ abandons = 0

(* ------------------------------------------------------------------ *)
(* Callers                                                             *)
(* ------------------------------------------------------------------ *)

\* A send on a channel without a capacity: the Message enters at once.
send_unbounded(c, req, late) ==
    IF recv_closed
    THEN /\ pc' = [pc EXCEPT ![c] = "returned"]
         /\ result' = [result EXCEPT ![c] = Err(SendFailed)]
         /\ cur' = [cur EXCEPT ![c] = CallRecord(req, 0, late, FALSE, 0, FALSE)]
         /\ UNCHANGED <<queue, enq>>
    ELSE /\ queue' = Append(queue, Message(enq + 1, req, c, late))
         /\ enq' = enq + 1
         /\ pc' = [pc EXCEPT ![c] = "waiting"]
         /\ cur' = [cur EXCEPT ![c] = CallRecord(req, enq + 1, late, FALSE, 0, FALSE)]
         /\ UNCHANGED result

\* self.send.send(m).await of caller c with request req: an error if the
\* channel is closed, the Message enters the channel if it has room, and the
\* caller stays suspended otherwise.
send(c, req, late) ==
    LET woken == pc[c] = "sending"
    IN IF recv_closed
       THEN /\ pc' = [pc EXCEPT ![c] = "returned"]
            /\ result' = [result EXCEPT ![c] = Err(SendFailed)]
            /\ cur' = [cur EXCEPT ![c] = CallRecord(req, 0, late, woken, 0, FALSE)]
            /\ UNCHANGED <<queue, enq>>
       ELSE IF Len(queue) < CHANNEL_BUFFER_SIZE
       THEN /\ queue' = Append(queue, Message(enq + 1, req, c, late))
            /\ enq' = enq + 1
            /\ pc' = [pc EXCEPT ![c] = "waiting"]
            /\ cur' = [cur EXCEPT ![c] =
                          CallRecord(req, enq + 1, late, woken, 0,
                                     woken /\ Len(hist) > cur[c].at_block)]
            /\ UNCHANGED result
       ELSE /\ pc' = [pc EXCEPT ![c] = "sending"]
            /\ cur' = [cur EXCEPT ![c] = CallRecord(req, 0, late, TRUE, Len(hist), FALSE)]
            /\ UNCHANGED <<queue, enq, result>>

\* Caller c calls the method for req: process_request up to its send.
Call(c, req, n) ==
    /\ handle
    /\ pc[c] \in {"idle", "returned"}
    /\ ops < n
    /\ ops' = ops + 1
    /\ send(c, req, close_oks > 0)
    /\ UNCHANGED <<build, recv_closed, handle, rx, close_oks, abandons, workerVars>>

\* A caller suspended in send is woken: the channel has room or is closed.
SendResume(c) ==
    /\ pc[c] = "sending"
    /\ recv_closed \/ Len(queue) < CHANNEL_BUFFER_SIZE
    /\ send(c, cur[c].req, cur[c].late)
    /\ UNCHANGED <<build, recv_closed, handle, rx, ops, close_oks, abandons,
                   workerVars>>

\* `rx.await` of caller c completes, and the method returns.
Return(c) ==
    /\ pc[c] = "waiting"
    /\ rx[c].type # "Empty"
    /\ LET r == process_request(cur[c].req, rx[c])
       IN /\ result' = [result EXCEPT ![c] = r]
          /\ close_oks' = IF cur[c].req.op = "Close" /\ r.ok
                          THEN close_oks + 1 ELSE close_oks
    /\ pc' = [pc EXCEPT ![c] = "returned"]
    /\ rx' = [rx EXCEPT ![c] = RxEmpty]
    /\ UNCHANGED <<build, queue, recv_closed, handle, cur, ops, enq, abandons,
                   workerVars>>

\* Caller c drops the future of its call: its end of the reply channel goes.
Abandon(c) ==
    /\ pc[c] \in {"sending", "waiting"}
    /\ abandons < MaxAbandons
    /\ abandons' = abandons + 1
    /\ pc' = [pc EXCEPT ![c] = "idle"]
    /\ rx' = [rx EXCEPT ![c] = RxEmpty]
    /\ queue' = [i \in DOMAIN queue |->
                    IF queue[i].caller = c
                    THEN [queue[i] EXCEPT !.rx_alive = FALSE] ELSE queue[i]]
    /\ UNCHANGED <<build, recv_closed, handle, cur, result, ops, enq, close_oks,
                   workerVars>>

\* The AsyncDB handle is dropped once no call borrows it.
DropHandle ==
    /\ handle
    /\ \A c \in Callers : pc[c] \in {"idle", "returned"}
    /\ handle' = FALSE
    /\ queue' = IF wpc = "done" THEN <<>> ELSE queue
    /\ UNCHANGED <<build, recv_closed, callerVars, enq, workerVars>>

(* ------------------------------------------------------------------ *)
(* The worker                                                          *)
(* ------------------------------------------------------------------ *)

\* What run_server owns: the store and its two locals.
WorkerState(d, s, c) == [db |-> d, snapshots |-> s, snapshot_counter |-> c]

\* One turn of run_server's loop: receive the next Message and run its arm.
run_server ==
    /\ wpc = "recv"
    /\ queue # <<>>
    /\ LET got == blocking_recv(queue)
           message == got.message
       IN \E o \in db_outcomes(message.req, db, snapshots) :
            LET e == dispatch(message.req, db, snapshots, snapshot_counter, o)
            IN /\ db' = e.db
               /\ snapshots' = e.snapshots
               /\ snapshot_counter' = e.snapshot_counter
               /\ rx' = deliver(rx, message, e.sent)
               /\ hist' = Append(hist, [id |-> message.id, req |-> message.req,
                                        caller |-> message.caller,
                                        late |-> message.late,
                                        abandoned |-> ~message.rx_alive,
                                        outcome |-> o, sent |-> e.sent,
                                        pre |-> WorkerState(db, snapshots,
                                                            snapshot_counter),
                                        post |-> WorkerState(e.db, e.snapshots,
                                                             e.snapshot_counter)])
               /\ wpc' = IF e.leave THEN "close_replied" ELSE "recv"
               /\ queue' = got.rest
    /\ UNCHANGED <<build, recv_closed, handle, pc, cur, result, ops, enq, close_oks,
                   abandons>>

\* recv.close() of the Close arm.
recv_close ==
    /\ wpc = "close_replied"
    /\ recv_closed' = TRUE
    /\ wpc' = "closed"
    /\ UNCHANGED <<build, db, snapshots, snapshot_counter, queue, handle, hist,
                   enq, callerVars>>

\* `return` of the Close arm: run_server ends and drops recv.
run_server_return ==
    /\ wpc = "closed"
    /\ wpc' = "done"
    /\ build' \in Builds
    /\ queue' = IF handle THEN receiver_dropped(build', queue) ELSE <<>>
    /\ rx' = drop_messages(rx, SubSeq(queue, Len(queue') + 1, Len(queue)))
    /\ UNCHANGED <<db, snapshots, snapshot_counter, recv_closed, handle,
                   hist, enq, pc, cur, result, ops, close_oks, abandons>>

\* blocking_recv returns None (every Sender is gone and the channel is
\* empty): the loop ends, run_server returns and drops recv.
run_server_exhausted ==
    /\ wpc = "recv"
    /\ ~handle
    /\ queue = <<>>
    /\ wpc' = "done"
    /\ recv_closed' = TRUE
    /\ UNCHANGED <<build, db, snapshots, snapshot_counter, queue, handle, hist,
                   enq, callerVars>>

(* ------------------------------------------------------------------ *)
(* Specification                                                       *)
(* ------------------------------------------------------------------ *)

\* One request of each kind.
AllKinds ==
    {ReqClose, ReqPut(1, 1), ReqDelete(1),
     ReqWrite(<<BatchEntryPut(1, 2)>>, FALSE), ReqFlush, ReqGetAt(0, 1),
     ReqGet(1), ReqGetSnapshot, ReqDropSnapshot(0), ReqCompactRange(<<>>, <<>>)}

\* The steps of a system whose callers make at most n calls, of requests in
\* R, none of them Close.
NextOpen(R, n) ==
    \/ \E c \in Callers, req \in R : Call(c, req, n)
    \/ \E c \in Callers : SendResume(c)
    \/ \E c \in Callers : Return(c)
    \/ \E c \in Callers : Abandon(c)
    \/ DropHandle
    \/ run_server
    \/ run_server_exhausted

\* The same with Close among the requests: the Close arm's later steps.
NextOver(R, n) ==
    \/ NextOpen(R, n)
    \/ recv_close
    \/ run_server_return

Next == NextOver(AllKinds, MaxOps)

Spec == Init /\ [][Next]_vars

\* Put, delete and get of one key with two values.
KVRequests == {ReqPut(1, 1), ReqPut(1, 2), ReqDelete(1), ReqGet(1)}

NextKV == NextOpen(KVRequests, MaxOps + 1)

SpecKV == Init /\ [][NextKV]_vars

\* Snapshot handles: take, drop, read at handle 0, and one put.
SnapRequests == {ReqGetSnapshot, ReqDropSnapshot(0), ReqGetAt(0, 1), ReqPut(1, 1)}

NextSnap == NextOpen(SnapRequests, MaxOps + 1)

SpecSnap == Init /\ [][NextSnap]_vars

\* Compaction of the empty and of a non-empty range, on stores with and
\* without contents and snapshots.
CompactRequests ==
    {ReqCompactRange(<<>>, <<>>), ReqCompactRange(<<1>>, <<1>>), ReqPut(1, 1),
     ReqGetSnapshot}

NextCompact == NextOpen(CompactRequests, MaxOps)

SpecCompact == Init /\ [][NextCompact]_vars

\* Writes of two values to one key and the taking and dropping of snapshots,
\* by concurrent callers.
OrderRequests == {ReqPut(1, 1), ReqPut(1, 2), ReqGetSnapshot, ReqDropSnapshot(0)}

NextOrder == NextOpen(OrderRequests, MaxOps)

SpecOrder == Init /\ [][NextOrder]_vars

\* Requests that can be answered with an Error (a put the store rejects, a
\* read at a handle that is not registered), a get, and Close.
ErrRequests == {ReqClose, ReqPut(1, 1), ReqGetAt(0, 1), ReqGet(1)}

NextErr == NextOver(ErrRequests, MaxOps)

SpecErr == Init /\ [][NextErr]_vars

\* Every kind of request, each call awaited to its end: no call is abandoned
\* and the handle is kept.
NextKinds ==
    \/ \E c \in Callers, req \in AllKinds : Call(c, req, MaxOps)
    \/ \E c \in Callers : Return(c)
    \/ run_server
    \/ recv_close
    \/ run_server_return

SpecKinds == Init /\ [][NextKinds]_vars

\* Calls of put and close under a fair schedule: the worker's thread runs
\* whenever it has a step to take (it is a blocking task of its own), and a
\* caller whose send or reply future is woken is polled again.  Nothing
\* obliges a caller to make a call, to abandon one or to drop the handle.
LiveRequests == {ReqClose, ReqPut(1, 1)}

NextLive == NextOver(LiveRequests, MaxOps)

Fairness ==
    /\ WF_vars(run_server)
    /\ WF_vars(recv_close)
    /\ WF_vars(run_server_return)
    /\ WF_vars(run_server_exhausted)
    /\ \A c \in Callers : WF_vars(Return(c)) /\ WF_vars(SendResume(c))

SpecLive == Init /\ [][NextLive]_vars /\ Fairness

\* Reads at two handles, with a put, further snapshots and a drop in
\* between; every call is awaited to its end.
SnapReadRequests ==
    {ReqPut(1, 1), ReqGetSnapshot, ReqGetAt(0, 1), ReqGetAt(1, 1),
     ReqDropSnapshot(0)}

NextSnapRead ==
    \/ \E c \in Callers, req \in SnapReadRequests : Call(c, req, MaxOps + 1)
    \/ \E c \in Callers : Return(c)
    \/ run_server

SpecSnapRead == Init /\ [][NextSnapRead]_vars

\* The scenario of concurrent puts followed by concurrent gets: caller c owns
\* key c; every caller puts its value under its key, and once every put has
\* returned, every caller gets its key.
key_of(c) == c
val_of(c) == ((c - 1) % NumVals) + 1
PutGetCallers == {c \in Callers : key_of(c) \in Keys}

CallPut(c) ==
    /\ cur[c] = NoCall
    /\ Call(c, ReqPut(key_of(c), val_of(c)), 2 * NumCallers)

CallGet(c) ==
    /\ cur[c].req.op = "Put"
    /\ \A d \in PutGetCallers :
         \/ cur[d].req.op = "Put" /\ Returned(d)
         \/ cur[d].req.op = "Get"
    /\ Call(c, ReqGet(key_of(c)), 2 * NumCallers)

NextPutGet ==
    \/ \E c \in PutGetCallers : CallPut(c)
    \/ \E c \in PutGetCallers : CallGet(c)
    \/ \E c \in PutGetCallers : Return(c)
    \/ run_server

SpecPutGet == Init /\ [][NextPutGet]_vars

(* ------------------------------------------------------------------ *)
(* Derived notions used by the properties                              *)
(* ------------------------------------------------------------------ *)

\* The contents of a store that was EmptyStore and then carried out, in the
\* order in which they entered the channel, the put, delete and write
\* requests numbered below n that the worker has run and the store accepted.
RECURSIVE ReplayBelow(_)
ReplayBelow(n) ==
    IF n <= 1 THEN EmptyStore
    ELSE LET before == ReplayBelow(n - 1)
             es == {i \in DOMAIN hist : hist[i].id = n - 1 /\ hist[i].outcome = "Ok"}
         IN IF es = {} THEN before
            ELSE LET req == hist[CHOOSE i \in es : TRUE].req
                 IN CASE req.op = "Put" -> [before EXCEPT ![req.key] = req.val]
                      [] req.op = "Delete" -> [before EXCEPT ![req.key] = None]
                      [] req.op = "Write" -> ApplyBatch(before, req.batch)
                      [] OTHER -> before

\* Caller c's last call has returned the communication-failure error.
CommunicationFailure(c) ==
    /\ Returned(c)
    /\ ~result[c].ok
    /\ result[c].status.code = "AsyncError"
    /\ result[c].status \in {ChannelClosed, SendFailed}

(* ------------------------------------------------------------------ *)
(* C1                                                                  *)
(* ------------------------------------------------------------------ *)

\* C1: a get(k) answered by the worker returns the value of the last put for
\* k that entered the channel before it, or no value if the last operation on
\* k before it was a delete or there was none: the worker's reply to every Get
\* it ran, and what the calling get(k) returned, is the value k has after the
\* puts and deletes that precede the Get in enqueue order (those the store
\* carried out: a put the store rejects is reported as an error to its
\* caller and writes nothing).
C1_GetReflectsLastPut ==
    /\ \A i \in DOMAIN hist :
         hist[i].req.op = "Get" =>
           hist[i].sent = <<RespValue(ReplayBelow(hist[i].id)[hist[i].req.key])>>
    /\ \A c \in Callers :
         (Returned(c) /\ cur[c].req.op = "Get" /\ result[c].ok) =>
           result[c].val = ReplayBelow(cur[c].id)[cur[c].req.key]

\* A get has returned the value of the second of two accepted puts of
\* different values to its key, both ahead of it in the channel.
C1_Witness ==
    \E c \in Callers, i, j \in DOMAIN hist :
      /\ Returned(c) /\ cur[c].req.op = "Get" /\ result[c].ok
      /\ i < j /\ hist[j].id < cur[c].id
      /\ hist[i].req.op = "Put" /\ hist[j].req.op = "Put"
      /\ hist[i].outcome = "Ok" /\ hist[j].outcome = "Ok"
      /\ hist[i].req.key = cur[c].req.key /\ hist[j].req.key = cur[c].req.key
      /\ hist[i].req.val # hist[j].req.val
      /\ result[c].val = hist[j].req.val

(* ------------------------------------------------------------------ *)
(* C2                                                                  *)
(* ------------------------------------------------------------------ *)

\* The numbers of the Messages the worker has dequeued.
Dequeued == {hist[i].id : i \in DOMAIN hist}

\* Caller c's call is in the channel's hands: it awaits a reply to a Message
\* the worker has not dequeued.
AwaitsUndequeued(c) == pc[c] = "waiting" /\ cur[c].id \notin Dequeued

\* No call made after a close() returned Ok returns anything but an
\* AsyncError, and the worker runs none of them (so none changes the store).
C2_NoLateSuccess ==
    /\ \A c \in Callers :
         (Returned(c) /\ cur[c].late) => CommunicationFailure(c)
    /\ \A i \in DOMAIN hist : ~hist[i].late

\* C2: after a close() has returned Ok, every operation invoked later on the
\* handle fails with the communication-failure error: it returns nothing else,
\* the worker does not run it, and once the worker has ended, a later call
\* that still awaits its reply finds its reply channel closed (which
\* process_request reports as AsyncError).
C2_LateOpsFail ==
    /\ C2_NoLateSuccess
    /\ \A c \in Callers :
         (wpc = "done" /\ cur[c].late /\ pc[c] = "waiting") => rx[c] = RxClosed

(* ------------------------------------------------------------------ *)
(* C3                                                                  *)
(* ------------------------------------------------------------------ *)

\* Every dequeued Message had exactly one Response sent on its reply channel,
\* and a call whose Message was never dequeued gets no Response: if it
\* returns, it returns the "channel closed" AsyncError.
C3_OneResponsePerDequeued ==
    /\ \A i \in DOMAIN hist : Len(hist[i].sent) = 1
    /\ \A c \in Callers :
         (Returned(c) /\ cur[c].id > 0 /\ cur[c].id \notin Dequeued) =>
           result[c] = Err(ChannelClosed)
    /\ \A c \in Callers : AwaitsUndequeued(c) => rx[c] \in {RxEmpty, RxClosed}

\* C3: every Message the worker dequeues has exactly one Response sent on its
\* reply channel; a Message that was enqueued and never dequeued because the
\* worker terminated first gets no Response, and its caller observes a closed
\* reply channel, reported as the communication-failure error.
C3_ExactlyOneOrClosed ==
    /\ C3_OneResponsePerDequeued
    /\ \A c \in Callers : (wpc = "done" /\ AwaitsUndequeued(c)) => rx[c] = RxClosed

(* ------------------------------------------------------------------ *)
(* C4                                                                  *)
(* ------------------------------------------------------------------ *)

\* C4: every handle returned by get_snapshot differs from every handle
\* returned earlier in the worker's lifetime, whether or not earlier handles
\* were dropped in between and whatever was processed in between: two
\* GetSnapshot requests the worker ran were never answered with the same
\* handle, and two get_snapshot calls never returned the same handle.
C4_HandlesUnique ==
    /\ \A i, j \in DOMAIN hist :
         (i < j /\ hist[i].req.op = "GetSnapshot" /\ hist[j].req.op = "GetSnapshot")
           => /\ Len(hist[i].sent) = 1 /\ hist[i].sent[1].type = "Snapshot"
              /\ Len(hist[j].sent) = 1 /\ hist[j].sent[1].type = "Snapshot"
              /\ hist[i].sent[1].ref # hist[j].sent[1].ref
    /\ \A c, d \in Callers :
         (/\ c # d
          /\ Returned(c) /\ cur[c].req.op = "GetSnapshot" /\ result[c].ok
          /\ Returned(d) /\ cur[d].req.op = "GetSnapshot" /\ result[d].ok)
           => result[c].val # result[d].val

\* Two handles were returned with a drop of the first one in between.
C4_Witness ==
    \E i, j, k \in DOMAIN hist :
      /\ i < j /\ j < k
      /\ hist[i].req.op = "GetSnapshot"
      /\ hist[j].req.op = "DropSnapshot"
      /\ hist[i].sent = <<RespSnapshot(hist[j].req.snapshot)>>
      /\ hist[k].req.op = "GetSnapshot"
      /\ \E c \in Callers :
           Returned(c) /\ cur[c].id = hist[k].id /\ result[c].ok

(* ------------------------------------------------------------------ *)
(* C5                                                                  *)
(* ------------------------------------------------------------------ *)

\* Handle h is registered when the worker starts on its i-th Message: a
\* GetSnapshot before it was answered with h and no DropSnapshot of h was run
\* since.
RegisteredBefore(i, h) ==
    \E j \in 1..(i - 1) :
      /\ hist[j].req.op = "GetSnapshot"
      /\ hist[j].sent = <<RespSnapshot(h)>>
      /\ \A m \in (j + 1)..(i - 1) :
           ~(hist[m].req.op = "DropSnapshot" /\ hist[m].req.snapshot = h)

\* C5: get_at with a handle that is not in the registry (never issued, or
\* issued and then dropped, also after later get_snapshot calls) is answered
\* with the unknown-handle error and never a value, and that is what the
\* caller's get_at returns.
C5_UnknownHandleIsError ==
    \A i \in DOMAIN hist :
      (hist[i].req.op = "GetAt" /\ ~RegisteredBefore(i, hist[i].req.snapshot))
        => /\ hist[i].sent = <<RespError(UnknownSnapshot)>>
           /\ \A c \in Callers :
                (Returned(c) /\ cur[c].id = hist[i].id)
                  => result[c] = Err(UnknownSnapshot)

\* get_snapshot, drop_snapshot of its handle, another get_snapshot, then
\* get_at with the dropped handle has returned the error.
C5_Witness ==
    \E i, j, k, l \in DOMAIN hist :
      /\ i < j /\ j < k /\ k < l
      /\ hist[i].req.op = "GetSnapshot"
      /\ hist[j].req.op = "DropSnapshot"
      /\ hist[i].sent = <<RespSnapshot(hist[j].req.snapshot)>>
      /\ hist[k].req.op = "GetSnapshot"
      /\ hist[l].req.op = "GetAt"
      /\ hist[l].req.snapshot = hist[j].req.snapshot
      /\ \E c \in Callers :
           /\ Returned(c) /\ cur[c].id = hist[l].id
           /\ result[c] = Err(UnknownSnapshot)

(* ------------------------------------------------------------------ *)
(* C6                                                                  *)
(* ------------------------------------------------------------------ *)

\* The store accepted caller c's put.
PutAccepted(c) ==
    \E i \in DOMAIN hist :
      hist[i].caller = c /\ hist[i].req.op = "Put" /\ hist[i].outcome = "Ok"

\* C6: when the callers concurrently put(key_i, val_i) for pairwise distinct
\* keys and, after all puts have returned, concurrently get(key_i), every get
\* returns exactly val_i (for a put the store carried out), and every put
\* returns the outcome of its own store call: each Response reaches the
\* caller whose request produced it.
C6_NoCrossTalk ==
    \A c \in PutGetCallers :
      /\ (Returned(c) /\ cur[c].req.op = "Get")
           => result[c] = Ok(IF PutAccepted(c) THEN val_of(c) ELSE None)
      /\ (Returned(c) /\ cur[c].req.op = "Put")
           => (result[c].ok <=> PutAccepted(c))

\* Every caller has got its own value back, the values being different.
C6_Witness ==
    /\ \A c \in PutGetCallers :
         Returned(c) /\ cur[c].req.op = "Get" /\ result[c] = Ok(val_of(c))
    /\ \E c, d \in PutGetCallers : val_of(c) # val_of(d)
    /\ hist[1].caller # hist[3].caller

(* ------------------------------------------------------------------ *)
(* C7                                                                  *)
(* ------------------------------------------------------------------ *)

\* C7: Close is cooperative: every Message that entered the channel ahead of
\* a Close was dequeued, run against the store and answered before the worker
\* handled the Close.
C7_CloseDrainsAhead ==
    \A i \in DOMAIN hist :
      hist[i].req.op = "Close" =>
        \A n \in 1..(hist[i].id - 1) :
          \E j \in 1..(i - 1) :
            /\ hist[j].id = n
            /\ Len(hist[j].sent) = 1
            /\ hist[j].post.db = ReplayBelow(n + 1)

\* A Close was handled with two Messages ahead of it, one an accepted put
\* that was queued together with the Close.
C7_Witness ==
    \E i \in DOMAIN hist :
      /\ hist[i].req.op = "Close"
      /\ hist[i].id = 3
      /\ hist[2].req.op = "Put" /\ hist[2].outcome = "Ok"
      /\ wpc = "done"
      /\ \E c \in Callers : Returned(c) /\ cur[c].id = 3 /\ result[c].ok

(* ------------------------------------------------------------------ *)
(* C8                                                                  *)
(* ------------------------------------------------------------------ *)

\* The worker has handled a Close other than the one caller c sent.
OtherCloseHandled(c) ==
    \E i \in DOMAIN hist : hist[i].req.op = "Close" /\ hist[i].id # cur[c].id

\* At most one close() returns Ok, and a close() that returns after the
\* worker handled another one returns the communication-failure error.
C8_AtMostOneCloseOk ==
    /\ close_oks <= 1
    /\ \A c \in Callers :
         (Returned(c) /\ cur[c].req.op = "Close" /\ OtherCloseHandled(c))
           => CommunicationFailure(c)

\* C8: at most one close() per worker lifetime returns Ok: once the worker
\* has handled one Close, every other close(), issued later or enqueued
\* behind the first, returns the communication-failure error (once the
\* worker has ended, a close() still waiting finds its reply channel closed).
C8_OtherClosesFail ==
    /\ C8_AtMostOneCloseOk
    /\ \A c \in Callers :
         (wpc = "done" /\ pc[c] = "waiting" /\ cur[c].req.op = "Close"
            /\ OtherCloseHandled(c))
           => rx[c] = RxClosed

(* ------------------------------------------------------------------ *)
(* C9                                                                  *)
(* ------------------------------------------------------------------ *)

\* C9: a Get the worker runs is always answered with Response::Value, with
\* None for a key absent from the store, and the get() that sent it returns
\* Ok, never an error.
C9_GetNeverErrors ==
    \A i \in DOMAIN hist :
      hist[i].req.op = "Get" =>
        /\ Len(hist[i].sent) = 1
        /\ hist[i].sent[1].type = "Value"
        /\ hist[i].pre.db[hist[i].req.key] = None => hist[i].sent[1].val = None
        /\ \A c \in Callers :
             (Returned(c) /\ cur[c].id = hist[i].id) =>
               /\ result[c].ok
               /\ hist[i].pre.db[hist[i].req.key] = None => result[c] = Ok(None)

\* get() of a key that was put and then deleted has returned Ok(None).
C9_Witness ==
    \E i \in DOMAIN hist, c \in Callers :
      /\ hist[i].req.op = "Get"
      /\ Returned(c) /\ cur[c].id = hist[i].id /\ result[c] = Ok(None)
      /\ \E j, k \in 1..(i - 1) :
           /\ j < k
           /\ hist[j].req.op = "Put" /\ hist[j].outcome = "Ok"
           /\ hist[k].req.op = "Delete" /\ hist[k].outcome = "Ok"

(* ------------------------------------------------------------------ *)
(* C10                                                                 *)
(* ------------------------------------------------------------------ *)

\* C10: drop_snapshot never fails while the worker lives and is idempotent:
\* the worker always answers Ok (and drop_snapshot returns Ok), the registry
\* afterwards is the registry before without the handle, so dropping a handle
\* that is not registered leaves the registry as it was, and a second drop
\* of the same handle leaves the registry the first drop left.
C10_DropIdempotent ==
    \A i \in DOMAIN hist :
      hist[i].req.op = "DropSnapshot" =>
        LET h == hist[i].req.snapshot
            before == hist[i].pre.snapshots
            after == hist[i].post.snapshots
        IN /\ hist[i].sent = <<RespOK>>
           /\ DOMAIN after = (DOMAIN before) \ {h}
           /\ \A x \in DOMAIN after : after[x] = before[x]
           /\ h \notin DOMAIN before => after = before
           /\ (i + 1 \in DOMAIN hist /\ hist[i + 1].req = hist[i].req)
                => hist[i + 1].post.snapshots = after
           /\ \A c \in Callers :
                (Returned(c) /\ cur[c].id = hist[i].id) => result[c] = Ok(Unit)

\* A registered handle was dropped twice in a row, and the second drop
\* returned Ok.
C10_Witness ==
    \E i \in DOMAIN hist, c \in Callers :
      /\ i + 1 \in DOMAIN hist
      /\ hist[i].req.op = "DropSnapshot"
      /\ hist[i].req.snapshot \in DOMAIN hist[i].pre.snapshots
      /\ hist[i + 1].req = hist[i].req
      /\ Returned(c) /\ cur[c].id = hist[i + 1].id /\ result[c] = Ok(Unit)

(* ------------------------------------------------------------------ *)
(* C11                                                                 *)
(* ------------------------------------------------------------------ *)

\* The requests whose arm is one store call followed by send_response.
MutatingOps == {"Put", "Delete", "Write", "Flush", "CompactRange"}

\* C11: for put, delete, write, flush and compact_range the caller gets Ok
\* exactly when the store call succeeded, and when the store call failed the
\* caller gets an error carrying the very status the store returned: the
\* worker's Response is OK or Error(that status), the method returns the
\* store's own Result, and no such method returns Ok without an accepted
\* store call for its Message.
C11_StoreStatusVerbatim ==
    /\ \A i \in DOMAIN hist :
         hist[i].req.op \in MutatingOps =>
           LET stored == StoreResult(hist[i].outcome)
           IN /\ hist[i].sent = IF stored.ok THEN <<RespOK>>
                                ELSE <<RespError(stored.status)>>
              /\ \A c \in Callers :
                   (Returned(c) /\ cur[c].id = hist[i].id) => result[c] = stored
    /\ \A c \in Callers :
         (Returned(c) /\ cur[c].req.op \in MutatingOps /\ result[c].ok) =>
           \E i \in DOMAIN hist : hist[i].id = cur[c].id /\ hist[i].outcome = "Ok"

\* One caller's mutating call has returned the store's failure status while
\* the other's has returned Ok.
C11_Witness ==
    \E c, d \in Callers, i, j \in DOMAIN hist :
      /\ hist[i].req.op \in MutatingOps /\ hist[i].outcome \in StoreErrs
      /\ Returned(c) /\ cur[c].id = hist[i].id
      /\ result[c] = Err(Status(hist[i].outcome, "store error"))
      /\ hist[j].req.op \in MutatingOps /\ hist[j].outcome = "Ok"
      /\ Returned(d) /\ cur[d].id = hist[j].id /\ result[d] = Ok(Unit)

(* ------------------------------------------------------------------ *)
(* C12                                                                 *)
(* ------------------------------------------------------------------ *)

\* C12: the channel never holds more than CHANNEL_BUFFER_SIZE Messages; a
\* caller that sends while it is full stays suspended and has no Message in
\* it, and the Message of a call that was suspended entered only after the
\* worker had dequeued at least one Message since the suspension.
C12_QueueBounded ==
    /\ Len(queue) <= CHANNEL_BUFFER_SIZE
    /\ \A c \in Callers :
         pc[c] = "sending" =>
           /\ cur[c].id = 0
           /\ \A i \in DOMAIN queue : queue[i].caller = c => ~queue[i].rx_alive
    /\ \A c \in Callers :
         (cur[c].blocked /\ cur[c].id > 0) => cur[c].drained

\* A call that was suspended on the full channel has since entered it, after
\* one Message was dequeued, and has been answered by the worker.
C12_Witness ==
    \E c \in Callers :
      /\ cur[c].blocked /\ cur[c].id > CHANNEL_BUFFER_SIZE
      /\ cur[c].drained
      /\ Returned(c) /\ cur[c].id \in Dequeued /\ result[c].ok

(* ------------------------------------------------------------------ *)
(* C13                                                                 *)
(* ------------------------------------------------------------------ *)

\* C13: if a caller abandons its reply channel after its Message entered the
\* channel, the worker still runs the request against the store (the store
\* afterwards is the replay of everything up to and including it, which is
\* what later requests read), the reply send is a silent no-op (the caller
\* that left holds no Response, and a Response a caller holds is the one
\* sent for its current Message), and the worker goes on: the Message after
\* it starts from the state it left and is answered, and until then the
\* worker is back at its receive (or has ended because the handle is gone
\* and the channel is empty).
C13_AbandonedStillRuns ==
    /\ \A i \in DOMAIN hist :
         hist[i].abandoned =>
           /\ Len(hist[i].sent) = 1
           /\ hist[i].post.db = ReplayBelow(hist[i].id + 1)
           /\ (hist[i].req.op = "Put" /\ hist[i].outcome = "Ok")
                => hist[i].post.db[hist[i].req.key] = hist[i].req.val
           /\ (hist[i].req.op = "Delete" /\ hist[i].outcome = "Ok")
                => hist[i].post.db[hist[i].req.key] = None
           /\ (i + 1) \in DOMAIN hist =>
                /\ hist[i + 1].pre = hist[i].post
                /\ Len(hist[i + 1].sent) = 1
           /\ (i = Len(hist) /\ hist[i].req.op # "Close") =>
                /\ wpc = "recv" \/ (wpc = "done" /\ ~handle /\ queue = <<>>)
                /\ WorkerState(db, snapshots, snapshot_counter) = hist[i].post
    /\ \A c \in Callers :
         /\ pc[c] \in {"idle", "sending", "returned"} => rx[c] = RxEmpty
         /\ (pc[c] = "waiting" /\ rx[c] \notin {RxEmpty, RxClosed}) =>
              \E i \in DOMAIN hist :
                hist[i].id = cur[c].id /\ ~hist[i].abandoned /\ hist[i].sent = <<rx[c]>>

\* A put whose caller had left before the worker dequeued it was accepted by
\* the store, and a get that entered the channel after it has returned the
\* value it wrote.
C13_Witness ==
    \E i \in DOMAIN hist, c \in Callers :
      /\ hist[i].abandoned /\ hist[i].req.op = "Put" /\ hist[i].outcome = "Ok"
      /\ \A j \in 1..(i - 1) : hist[j].req.op # "Put"
      /\ Returned(c) /\ cur[c].req.op = "Get" /\ cur[c].id > hist[i].id
      /\ cur[c].req.key = hist[i].req.key
      /\ result[c] = Ok(hist[i].req.val)

(* ------------------------------------------------------------------ *)
(* C14                                                                 *)
(* ------------------------------------------------------------------ *)

\* C14: compact_range with empty from and empty to on an empty store returns
\* Ok and leaves the store's key-value contents and the snapshot registry
\* (and the handle counter) unchanged.
C14_CompactEmptyIsNoop ==
    \A i \in DOMAIN hist :
      (hist[i].req = ReqCompactRange(<<>>, <<>>) /\ hist[i].pre.db = EmptyStore) =>
        /\ hist[i].sent = <<RespOK>>
        /\ hist[i].post = hist[i].pre
        /\ \A c \in Callers :
             (Returned(c) /\ cur[c].id = hist[i].id) => result[c] = Ok(Unit)

\* compact_range of the empty range has returned Ok on an empty store that
\* has a snapshot registered, and the snapshot is still registered.
C14_Witness ==
    \E i \in DOMAIN hist, c \in Callers :
      /\ hist[i].req = ReqCompactRange(<<>>, <<>>)
      /\ hist[i].pre.db = EmptyStore
      /\ DOMAIN hist[i].pre.snapshots # {}
      /\ Returned(c) /\ cur[c].id = hist[i].id /\ result[c] = Ok(Unit)
      /\ i = Len(hist) /\ snapshots = hist[i].pre.snapshots /\ db = EmptyStore

(* ------------------------------------------------------------------ *)
(* C15                                                                 *)
(* ------------------------------------------------------------------ *)

\* The GetSnapshot requests numbered below n that the worker has run.
TakenBelow(n) ==
    {i \in DOMAIN hist : hist[i].id < n /\ hist[i].req.op = "GetSnapshot"}

\* The handle a sequential run in enqueue order gives the GetSnapshot at
\* hist[i]: the number of GetSnapshot requests that entered before it.
HandleInOrder(i) == Cardinality(TakenBelow(hist[i].id))

\* The registry after the requests numbered below n were run one after
\* another in the order in which they entered the channel: every snapshot
\* taken and not dropped since, holding the contents of the moment it was
\* taken.
RegistryBelow(n) ==
    LET live == {i \in TakenBelow(n) :
                   ~\E j \in DOMAIN hist :
                      /\ hist[j].id > hist[i].id /\ hist[j].id < n
                      /\ hist[j].req = ReqDropSnapshot(HandleInOrder(i))}
    IN [h \in {HandleInOrder(i) : i \in live} |->
          ReplayBelow(hist[CHOOSE i \in live : HandleInOrder(i) = h].id)]

\* C15: with several callers enqueuing concurrently, the worker applies the
\* requests one at a time and in the order in which their Messages entered
\* the channel: the i-th Message it dequeued is the i-th that entered, each
\* request starts from the state the one before it left, the replies were
\* produced in that order, and the store, the registry and the counter are
\* those of a sequential run of the dequeued requests in enqueue order.
C15_FifoAcrossCallers ==
    /\ \A i \in DOMAIN hist :
         /\ hist[i].id = i
         /\ hist[i].pre = IF i = 1 THEN WorkerState(EmptyStore, <<>>, 0)
                          ELSE hist[i - 1].post
         /\ Len(hist[i].sent) = 1
         /\ hist[i].post.db = ReplayBelow(i + 1)
         /\ hist[i].post.snapshots = RegistryBelow(i + 1)
    /\ db = ReplayBelow(enq + 1)
    /\ snapshots = RegistryBelow(enq + 1)
    /\ snapshot_counter = Cardinality(TakenBelow(enq + 1))

\* Two callers wrote different values to one key, the second caller's
\* Message entering first, and a snapshot was taken after both: the store and
\* the snapshot hold the value of the put that entered last.
C15_Witness ==
    /\ Len(hist) = 3
    /\ hist[1].caller = 2 /\ hist[2].caller = 1
    /\ hist[1].req = ReqPut(1, 2) /\ hist[1].outcome = "Ok"
    /\ hist[2].req = ReqPut(1, 1) /\ hist[2].outcome = "Ok"
    /\ hist[3].req = ReqGetSnapshot
    /\ cur[1].id = 2 /\ cur[2].id = 3
    /\ db[1] = 1 /\ DOMAIN snapshots = {0} /\ snapshots[0][1] = 1

(* ------------------------------------------------------------------ *)
(* C16                                                                 *)
(* ------------------------------------------------------------------ *)

\* The worker has replied Error to the i-th Message it dequeued.
RepliedError(i) == Len(hist[i].sent) = 1 /\ hist[i].sent[1].type = "Error"

\* C16: the worker terminates only when it handles a Close or when the
\* channel is closed and exhausted (every Sender is gone and it is empty):
\* whenever the worker has left its receive loop, the last Message it
\* dequeued is a Close or the channel is exhausted; no Message was dequeued
\* after a Close; and after replying Error (a failed store call, or get_at
\* with an unknown handle) the worker is back at its receive, and the next
\* Message it dequeues is run from the state it had and answered.
C16_OnlyCloseTerminates ==
    /\ wpc # "recv" =>
         \/ hist # <<>> /\ hist[Len(hist)].req.op = "Close"
         \/ ~handle /\ queue = <<>>
    /\ \A i \in DOMAIN hist :
         /\ (hist[i].req.op = "Close") => i = Len(hist)
         /\ RepliedError(i) =>
              /\ hist[i].req.op # "Close"
              /\ i = Len(hist) => (wpc = "recv" \/ (~handle /\ queue = <<>>))
              /\ (i + 1) \in DOMAIN hist =>
                   /\ hist[i + 1].pre = hist[i].post
                   /\ Len(hist[i + 1].sent) = 1

\* One caller's put was rejected by the store and its get_at named an unknown
\* handle; both returned the error, and the get it called after them was
\* run and returned Ok while the worker is still receiving.
C16_Witness ==
    \E c \in Callers :
      /\ Len(hist) = 3 /\ wpc = "recv"
      /\ \A i \in DOMAIN hist : hist[i].caller = c /\ ~hist[i].abandoned
      /\ hist[1].req.op = "Put" /\ hist[1].outcome \in StoreErrs /\ RepliedError(1)
      /\ hist[2].req.op = "GetAt" /\ hist[2].sent = <<RespError(UnknownSnapshot)>>
      /\ hist[3].req.op = "Get"
      /\ Returned(c) /\ cur[c].id = hist[3].id /\ result[c].ok

(* ------------------------------------------------------------------ *)
(* C17                                                                 *)
(* ------------------------------------------------------------------ *)

\* The Response variants the method for a request of kind op accepts.
Accepted(op) ==
    CASE op \in {"Close", "Put", "Delete", "Write", "Flush", "CompactRange"}
           -> {"OK", "Error"}
      [] op \in {"Get", "GetAt"} -> {"Value", "Error"}
      [] op = "GetSnapshot" -> {"Snapshot"}
      [] op = "DropSnapshot" -> {"OK"}

\* C17: the protocol-mismatch error is unreachable: for every request the
\* worker ran, the one Response it sent is of a variant the issuing method
\* accepts, the method applied to it does not yield "Wrong response type",
\* and no call has returned that error.
C17_NoWrongResponse ==
    /\ \A i \in DOMAIN hist :
         /\ Len(hist[i].sent) = 1
         /\ hist[i].sent[1].type \in Accepted(hist[i].req.op)
         /\ method(hist[i].req, hist[i].sent[1]) # Err(WrongResponse)
    /\ \A c \in Callers : Returned(c) => result[c] # Err(WrongResponse)

\* get_at has returned the unknown-handle Error, and after a get_snapshot a
\* drop_snapshot has returned Ok: the methods with the narrowest matches
\* got variants they accept.
C17_Witness ==
    \E c, d \in Callers, i, j, k \in DOMAIN hist :
      /\ c # d /\ i < j /\ j < k
      /\ hist[i].req.op = "GetAt" /\ hist[i].sent[1].type = "Error"
      /\ hist[j].req.op = "GetSnapshot" /\ hist[j].sent[1].type = "Snapshot"
      /\ hist[k].req.op = "DropSnapshot" /\ hist[k].sent[1].type = "OK"
      /\ Returned(c) /\ cur[c].id = hist[j].id /\ result[c].ok
      /\ Returned(d) /\ cur[d].id = hist[k].id /\ result[d] = Ok(Unit)

(* ------------------------------------------------------------------ *)
(* C18                                                                 *)
(* ------------------------------------------------------------------ *)

\* Caller c is suspended in a call: in its send or in `rx.await`.
Suspended(c) == pc[c] \in {"sending", "waiting"}

\* A caller suspended in its send is woken once the worker has ended, and
\* its call then fails with the send error: the part of C18 about a full
\* channel, which holds in both builds.
C18_BlockedSenderReleased ==
    \A c \in Callers :
      (wpc = "done" /\ pc[c] = "sending") => (recv_closed /\ ENABLED SendResume(c))

\* C18: every operation a caller invokes eventually returns, given a fair
\* worker: a caller suspended in its send or awaiting its reply does not stay
\* suspended forever (it returns the worker's Response or the
\* communication-failure error, unless it abandons the call itself).
C18_EveryCallReturns ==
    \A c \in Callers : Suspended(c) ~> ~Suspended(c)

(* ------------------------------------------------------------------ *)
(* C19                                                                 *)
(* ------------------------------------------------------------------ *)

\* The GetSnapshot request, among those run before the worker's i-th
\* Message, that was answered with handle h and not dropped since.
TakenBy(i, h) ==
    CHOOSE j \in 1..(i - 1) :
      /\ hist[j].req.op = "GetSnapshot"
      /\ hist[j].sent = <<RespSnapshot(h)>>
      /\ \A m \in (j + 1)..(i - 1) :
           ~(hist[m].req.op = "DropSnapshot" /\ hist[m].req.snapshot = h)

\* C19: get_at(h, k) with a registered handle h reads the snapshot taken by
\* the GetSnapshot request that returned h: unless the store's read fails,
\* the reply (and what get_at returns) is the value k had when the worker
\* ran that GetSnapshot, which is the replay of the writes that entered
\* before it, whatever was put or deleted afterwards and whatever other
\* handles were taken or dropped; a failed read is reported as the store's
\* error.
C19_GetAtReadsItsSnapshot ==
    \A i \in DOMAIN hist :
      (hist[i].req.op = "GetAt" /\ RegisteredBefore(i, hist[i].req.snapshot)) =>
        LET j == TakenBy(i, hist[i].req.snapshot)
            k == hist[i].req.key
            at_take == hist[j].pre.db[k]
            expected == IF hist[i].outcome = "Ok" THEN RespValue(at_take)
                        ELSE RespError(Status(hist[i].outcome, "store error"))
        IN /\ at_take = ReplayBelow(hist[j].id)[k]
           /\ hist[i].sent = <<expected>>
           /\ \A c \in Callers :
                (Returned(c) /\ cur[c].id = hist[i].id) =>
                  result[c] = IF hist[i].outcome = "Ok" THEN Ok(at_take)
                              ELSE Err(expected.status)

\* A snapshot was taken of the empty store, then a put was accepted and a
\* second snapshot taken, and get_at with the first handle has returned no
\* value for the key although the live store and the second snapshot hold
\* one.
C19_Witness ==
    \E c \in Callers :
      /\ Len(hist) = 4
      /\ hist[1].req.op = "GetSnapshot"
      /\ hist[2].req.op = "Put" /\ hist[2].outcome = "Ok"
      /\ hist[3].req.op = "GetSnapshot"
      /\ hist[4].req = ReqGetAt(0, hist[2].req.key) /\ hist[4].outcome = "Ok"
      /\ Returned(c) /\ cur[c].id = hist[4].id /\ result[c] = Ok(None)
      /\ db[hist[2].req.key] = hist[2].req.val
      /\ snapshots[1][hist[2].req.key] = hist[2].req.val

(* ------------------------------------------------------------------ *)
(* C20                                                                 *)
(* ------------------------------------------------------------------ *)

\* C20: each request changes only its own part of the worker's state: Get,
\* GetAt, GetSnapshot and DropSnapshot leave the store's live contents as
\* they were; Put, Delete, Write, Flush, CompactRange, Get and GetAt leave
\* the snapshot registry and the handle counter as they were;
\* DropSnapshot(h) removes at most the entry for h, every other registered
\* handle stays registered with its snapshot, and the counter stays.
C20_FrameEffects ==
    \A i \in DOMAIN hist :
      LET op == hist[i].req.op
          pre == hist[i].pre
          post == hist[i].post
      IN /\ op \in {"Get", "GetAt", "GetSnapshot", "DropSnapshot"}
              => post.db = pre.db
         /\ op \in {"Put", "Delete", "Write", "Flush", "CompactRange", "Get", "GetAt"}
              => /\ post.snapshots = pre.snapshots
                 /\ post.snapshot_counter = pre.snapshot_counter
         /\ op = "DropSnapshot"
              => /\ (DOMAIN pre.snapshots) \ (DOMAIN post.snapshots)
                      \subseteq {hist[i].req.snapshot}
                 /\ DOMAIN post.snapshots \subseteq DOMAIN pre.snapshots
                 /\ \A x \in (DOMAIN pre.snapshots) \ {hist[i].req.snapshot} :
                      x \in DOMAIN post.snapshots /\ post.snapshots[x] = pre.snapshots[x]
                 /\ post.snapshot_counter = pre.snapshot_counter
         /\ (i = Len(hist)) => WorkerState(db, snapshots, snapshot_counter) = post

\* With two handles registered, drop_snapshot of the first has returned Ok:
\* the second is still registered and the counter is still 2.
C20_Witness ==
    \E c \in Callers :
      /\ Len(hist) = 3
      /\ hist[1].req.op = "GetSnapshot" /\ hist[2].req.op = "GetSnapshot"
      /\ hist[3].req = ReqDropSnapshot(0)
      /\ DOMAIN hist[3].pre.snapshots = {0, 1}
      /\ Returned(c) /\ cur[c].id = hist[3].id /\ result[c] = Ok(Unit)
      /\ DOMAIN snapshots = {1} /\ snapshot_counter = 2

====
